---- MODULE Spec2Model ----
(***************************************************************************)
(* Model of the authoritative pong server (server/src/index.ts, the http + *)
(* ws server that starts at line 57): one Match, the connection, message   *)
(* and close handlers, the heartbeat interval and the physics tick; and   *)
(* of the reconstruction buffer of one client (GameEngine.tsx): the ingest *)
(* of state snapshots and sampleState.                                     *)
(*                                                                         *)
(* Numbers: JavaScript numbers are modelled in fixed point, one unit of    *)
(* the field being Scale model units, so that positions, velocities and    *)
(* the trigonometry of resetBall and collide are integer computations.     *)
(* Angles are in milliradians.  Math.random() and Date.now() are inputs.   *)
(***************************************************************************)
EXTENDS Integers, Sequences, FiniteSets, TLC

\* ---------------------------------------------------------------- constants
WIDTH == 800
HEIGHT == 500
PADDLE_W == 12
PADDLE_H == 90
BALL_R == 8
PADDLE_SPEED == 6
LAG_COMP_MS == 100
MAX_STEP == 18
SPEED_CAP == 12
RESET_SPEED == 5
LEFT_PAD_X == 20
PONG_TIMEOUT_MS == 10000
HEARTBEAT_MS == 3000
BUFFER_MS == 1500

\* fixed-point scale of a JavaScript number
Scale == 1000

\* ------------------------------------------------------------------- bounds
MaxConns == 3
MaxSeq == 2
LifeBeats == 1
MaxPhysTicks == 3
MaxBeats == 4
MaxPadTicks == 13
MaxIngest == 4
MaxClientSteps == 2
SeqStart == 200

\* the clock is read once per heartbeat period
ClockStep == HEARTBEAT_MS

Conns == 1..MaxConns
NoTarget == -1

U(n) == n * Scale

\* ------------------------------------------------------------ number helpers
Max(a, b) == IF a >= b THEN a ELSE b
Min(a, b) == IF a <= b THEN a ELSE b

\* division rounding toward zero, symmetric in the sign of a
Quot(a, b) == IF a >= 0 THEN a \div b ELSE -((-a) \div b)

Abs(a) == IF a >= 0 THEN a ELSE -a

RECURSIVE SqrtSearch(_, _, _)
SqrtSearch(n, lo, hi) ==
    IF lo >= hi THEN lo
    ELSE LET mid == (lo + hi + 1) \div 2
         IN IF mid * mid <= n THEN SqrtSearch(n, mid, hi)
            ELSE SqrtSearch(n, lo, mid - 1)

\* Math.hypot on fixed-point components, result in fixed point
Hypot(vx, vy) == SqrtSearch(vx * vx + vy * vy, 0, 40000)

\* Math.cos / Math.sin of an angle of a milliradians, |a| <= 1000, result
\* times Scale * Scale (Taylor polynomials, within 10 of the true value;
\* the even powers of the angle are kept times Scale * Scale)
CosM(a) ==
    LET x2 == a * a
        x4 == ((x2 \div 100) * (x2 \div 100)) \div 100
        x6 == ((x4 \div 100) * (x2 \div 100)) \div 100
        x8 == ((x4 \div 100) * (x4 \div 100)) \div 100
    IN 1000000 - (x2 \div 2) + (x4 \div 24) - (x6 \div 720) + (x8 \div 40320)

SinM(a) ==
    LET m == Abs(a)
        x2 == m * m
        x3 == (m * x2) \div 1000
        x5 == ((x3 \div 100) * (x2 \div 100)) \div 100
        x7 == ((x5 \div 100) * (x2 \div 100)) \div 100
        r == m * 1000 - (x3 \div 6) + (x5 \div 120) - (x7 \div 5040)
    IN IF a >= 0 THEN r ELSE -r

\* the product of a cosine or sine t (times Scale * Scale) and a fixed-point
\* number v >= 0, in fixed point, rounded toward zero
Scaled(t, v) ==
    LET m == Abs(t)
        r == ((m \div 1000) * v + ((m % 1000) * v) \div 1000) \div 1000
    IN IF t >= 0 THEN r ELSE -r

\* ------------------------------------------------------------------- state
VARIABLES
    players,   \* match.players: sequence of Player records
    ball,      \* match.ball: [x, y, vx, vy]
    seq,       \* match.seq
    rs,        \* readyState of every connection
    handlers,  \* connections whose message/close handlers are registered
    sent,      \* messages written to each connection by the last step
    lastSeq,   \* seq of the last state snapshot written to each connection
    intent,    \* kind of the last movement intent received on each connection
               \* (kept by the specification of paddle control only)
    now,       \* Date.now()
    lastBeat,  \* time of the last heartbeat cycle
    alive,     \* the server process is running
    ev,        \* branches the last step took in the tick (none outside it)
    buf,       \* client: stateBufferRef.current, the reconstruction buffer
    pnow,      \* client: performance.now()
    ingested,  \* client: number of state snapshots ingested so far
    shown      \* client: argument and result of the last sampleState call

\* the variables of the server and those of one client
svars == <<players, ball, seq, rs, handlers, sent, lastSeq, intent, now,
           lastBeat, alive, ev>>
cvars == <<buf, pnow, ingested, shown>>

vars == <<svars, cvars>>

NoneSent == [c \in Conns |-> <<>>]

NoIntent == [c \in Conns |-> "none"]

\* sampleState has not been called since the buffer last changed
NotShown == [called |-> FALSE]

\* the client component after mount: an empty buffer
ClientInit ==
    /\ buf = <<>>
    /\ pnow = 0
    /\ ingested = 0
    /\ shown = NotShown

NoEvent == [tick |-> FALSE, wall |-> FALSE, hitLeft |-> FALSE,
            hitRight |-> FALSE, exitLeft |-> FALSE, exitRight |-> FALSE]

\* values Math.random() contributes
InitVx == {U(-5), U(5)}
InitVy == {U(-4), 3500}
ResetAngles == {-300, 250}
AnyAngle == CHOOSE a \in ResetAngles : TRUE

Participants == {players[i].ws : i \in DOMAIN players}

makeMatchBall(vx, vy) ==
    [x |-> U(WIDTH) \div 2, y |-> U(HEIGHT) \div 2, vx |-> vx, vy |-> vy]

Init ==
    /\ players = <<>>
    /\ \E vx \in InitVx, vy \in InitVy : ball = makeMatchBall(vx, vy)
    /\ seq = 0
    /\ rs = [c \in Conns |-> "NEW"]
    /\ handlers = {}
    /\ sent = NoneSent
    /\ lastSeq = [c \in Conns |-> 0]
    /\ intent = NoIntent
    /\ now = 0
    /\ lastBeat = 0
    /\ alive = TRUE
    /\ ev = NoEvent
    /\ ClientInit

\* resetBall(dir) with Math.random() giving the angle
resetBall(dir, angle) ==
    [x |-> U(WIDTH) \div 2, y |-> U(HEIGHT) \div 2,
     vx |-> Scaled(CosM(angle), U(RESET_SPEED)) * dir,
     vy |-> Scaled(SinM(angle), U(RESET_SPEED))]

\* broadcast(obj): the message is written to every participant whose
\* connection is OPEN
broadcast(ps, msg) ==
    [c \in Conns |->
        IF \E i \in DOMAIN ps : ps[i].ws = c /\ rs[c] = "OPEN"
        THEN <<msg>> ELSE <<>>]

\* the loop of broadcast when ws.send throws on the connections in fails:
\* index of the first participant, in list order, whose send throws (0 if
\* none does); the throw leaves the loop
firstFail(ps, r, fails) ==
    LET bad == {i \in DOMAIN ps : r[ps[i].ws] = "OPEN" /\ ps[i].ws \in fails}
    IN IF bad = {} THEN 0 ELSE CHOOSE i \in bad : \A j \in bad : i <= j

\* what broadcast has written when it returns or throws
sentBefore(ps, r, msg, fails) ==
    LET ff == firstFail(ps, r, fails)
    IN [c \in Conns |->
          IF \E i \in DOMAIN ps :
                ps[i].ws = c /\ r[c] = "OPEN" /\ (ff = 0 \/ i < ff)
          THEN <<msg>> ELSE <<>>]

\* a teardown that drops the first participant only
clearedPlayersKeepLast(ps) == IF Len(ps) > 1 THEN Tail(ps) ELSE <<>>

\* match.players = [] of teardownMatch
clearedPlayers(ps) == <<>>

\* teardownMatch(reason), run with the readyStates r, Math.random() giving
\* the direction and the angle of the re-armed ball, ws.send throwing on the
\* connections in fails (the throw is caught around the broadcast)
teardownMatch(r, reason, dir, angle, fails) ==
    /\ sent' = sentBefore(players, r, [type |-> "end", reason |-> reason], fails)
    /\ rs' = [c \in Conns |->
                  IF c \in Participants /\ r[c] = "OPEN" THEN "CLOSING" ELSE r[c]]
    /\ players' = clearedPlayers(players)
    /\ seq' = 0
    /\ ball' = resetBall(dir, angle)

\* a paddle whose top edge, not its centre, starts at the vertical centre
NewPlayerTopAtCentre(c, side) ==
    [ws |-> c, side |-> side,
     y |-> U(HEIGHT) \div 2,
     score |-> 0, up |-> FALSE, down |-> FALSE,
     lastPong |-> now, desiredY |-> NoTarget]

NewPlayer(c, side) ==
    [ws |-> c, side |-> side,
     y |-> U(HEIGHT) \div 2 - U(PADDLE_H) \div 2,
     score |-> 0, up |-> FALSE, down |-> FALSE,
     lastPong |-> now, desiredY |-> NoTarget]

InitMsg(side) ==
    [type |-> "init", side |-> side, width |-> WIDTH, height |-> HEIGHT,
     lagCompMs |-> LAG_COMP_MS]

\* capacity tests that are off by one
isFullAtThree(ps) == Len(ps) >= 3
isFullAboveTwo(ps) == Len(ps) > 2

\* match.players.length >= 2
isFull(ps) == Len(ps) >= 2

\* a side that ignores who is already seated
sideForAlwaysLeft(ps) == "left"

\* match.players.length === 0 ? "left" : "right"
sideFor(ps) == IF Len(ps) = 0 THEN "left" ELSE "right"

\* wss.on("connection"): connections arrive in the order of their ids
OnConnection(c) ==
    /\ alive
    /\ rs[c] = "NEW"
    /\ \A d \in Conns : d < c => rs[d] # "NEW"
    /\ IF isFull(players)
       THEN /\ sent' = [NoneSent EXCEPT ![c] = <<[type |-> "full"]>>]
            /\ rs' = [rs EXCEPT ![c] = "CLOSING"]
            /\ UNCHANGED <<players, handlers>>
       ELSE LET side == sideFor(players)
            IN /\ players' = Append(players, NewPlayer(c, side))
               /\ rs' = [rs EXCEPT ![c] = "OPEN"]
               /\ sent' = [NoneSent EXCEPT ![c] = <<InitMsg(side)>>]
               /\ handlers' = handlers \cup {c}
    /\ UNCHANGED <<ball, seq, lastSeq, intent, now, lastBeat, alive>>
    /\ ev' = NoEvent
    /\ UNCHANGED cvars

\* the "close" event of a connection: the peer went away, or a close() or
\* terminate() of the server completed.  ws.on("close") runs when registered.
\* ws.send throws on the connections in fails.
OnCloseWith(c, fails) ==
    /\ alive
    /\ rs[c] \in {"OPEN", "CLOSING"}
    /\ LET r == [rs EXCEPT ![c] = "CLOSED"]
       IN IF c \in handlers
          THEN \E dir \in {1, -1}, angle \in ResetAngles :
                   teardownMatch(r, "player_left", dir, angle, fails)
          ELSE /\ rs' = r
               /\ sent' = NoneSent
               /\ UNCHANGED <<players, seq, ball>>
    \* a connection that is no longer open is never written to or read from
    \* again: the records of its last snapshot and intent are dropped with it
    /\ lastSeq' = [d \in Conns |-> IF rs'[d] = "OPEN" THEN lastSeq[d] ELSE 0]
    /\ intent' = [d \in Conns |-> IF rs'[d] = "OPEN" THEN intent[d] ELSE "none"]
    /\ UNCHANGED <<handlers, now, lastBeat, alive>>
    /\ ev' = NoEvent
    /\ UNCHANGED cvars

\* the close event when every send succeeds
OnClose(c) == OnCloseWith(c, {})

\* payloads a client can put on the wire
Payload(json, type, up, down, numY, desiredY) ==
    [json |-> json, type |-> type, up |-> up, down |-> down,
     numY |-> numY, desiredY |-> desiredY]

LifePayloads ==
    {Payload("object", "input", FALSE, FALSE, FALSE, 0),
     Payload("object", "pong", FALSE, FALSE, FALSE, 0),
     Payload("object", "touchMove", FALSE, FALSE, FALSE, 0),
     Payload("object", "other", TRUE, FALSE, TRUE, U(250)),
     Payload("invalid", "other", FALSE, TRUE, TRUE, U(250)),
     Payload("scalar", "other", FALSE, TRUE, TRUE, U(250)),
     Payload("null", "other", FALSE, TRUE, TRUE, U(250))}

Payloads ==
    {Payload("object", "input", TRUE, FALSE, FALSE, 0),
     Payload("object", "touchMove", FALSE, FALSE, TRUE, 0),
     Payload("object", "touchMove", FALSE, FALSE, FALSE, 0),
     Payload("invalid", "other", FALSE, TRUE, TRUE, U(250))}

\* a pong that is also counted as a goal of its sender
HandleParsedScoring(p, m) ==
    IF m.type = "input" THEN [p EXCEPT !.up = m.up, !.down = m.down]
    ELSE IF m.type = "pong"
         THEN [p EXCEPT !.lastPong = now, !.score = p.score + 1]
    ELSE p

\* the body of ws.on("message") after a successful JSON.parse of a value
\* that has properties
HandleParsed(p, m) ==
    IF m.type = "input" THEN [p EXCEPT !.up = m.up, !.down = m.down]
    ELSE IF m.type = "pong" THEN [p EXCEPT !.lastPong = now]
    ELSE IF m.type = "touchMove" /\ m.numY
         THEN [p EXCEPT !.desiredY =
                  Max(U(PADDLE_H) \div 2,
                      Min(U(HEIGHT) - U(PADDLE_H) \div 2, m.desiredY))]
    ELSE p

\* the listener of ws.on("message"): JSON.parse throwing returns; a parsed
\* null makes msg.type throw a TypeError nothing catches, which ends the
\* process
Receive(c, m) ==
    /\ alive
    /\ c \in handlers
    /\ rs[c] = "OPEN"
    /\ IF m.json = "invalid" THEN UNCHANGED <<players, alive>>
       ELSE IF m.json = "null" THEN alive' = FALSE /\ UNCHANGED players
       ELSE IF m.json = "scalar" THEN UNCHANGED <<players, alive>>
       ELSE /\ alive' = alive
            /\ players' = [i \in DOMAIN players |->
                              IF players[i].ws = c
                              THEN HandleParsed(players[i], m)
                              ELSE players[i]]
    /\ sent' = NoneSent
    /\ UNCHANGED <<ball, seq, rs, handlers, lastSeq, now, lastBeat>>
    /\ ev' = NoEvent
    /\ UNCHANGED cvars

\* ws.on("message")
OnMessage(c, m) == Receive(c, m) /\ UNCHANGED intent

\* ws.on("message"), the kind of a movement intent it stores being noted
OnIntent(c, m) ==
    /\ Receive(c, m)
    /\ intent' = IF m.json = "object" /\ m.type = "input"
                 THEN [intent EXCEPT ![c] = "input"]
                 ELSE IF m.json = "object" /\ m.type = "touchMove" /\ m.numY
                 THEN [intent EXCEPT ![c] = "touchMove"]
                 ELSE intent

\* a liveness test that allows one heartbeat period only
tooOldOneBeat(p) == now - p.lastPong >= HEARTBEAT_MS

\* a liveness test twice as patient as the timeout
tooOldDouble(p) == now - p.lastPong > 2 * PONG_TIMEOUT_MS

\* now - p.lastPong > 10000
tooOld(p) == now - p.lastPong > PONG_TIMEOUT_MS

\* the heartbeat interval: ping the open participants, terminate those
\* whose last pong is too old
Heartbeat ==
    /\ alive
    /\ now - lastBeat >= HEARTBEAT_MS
    /\ lastBeat' = now
    /\ sent' = broadcast(players, [type |-> "ping", t |-> now])
    /\ rs' = [c \in Conns |->
                IF /\ \E i \in DOMAIN players :
                         players[i].ws = c /\ tooOld(players[i])
                   /\ rs[c] # "CLOSED"
                THEN "CLOSING" ELSE rs[c]]
    /\ UNCHANGED <<players, ball, seq, handlers, lastSeq, intent, now, alive>>
    /\ ev' = NoEvent
    /\ UNCHANGED cvars

\* Date.now() advances; a due heartbeat cycle runs before it advances again
AdvanceClock ==
    /\ alive
    /\ now - lastBeat < HEARTBEAT_MS
    /\ now' = now + ClockStep
    /\ sent' = NoneSent
    /\ UNCHANGED <<players, ball, seq, rs, handlers, lastSeq, intent, lastBeat,
                   alive>>
    /\ ev' = NoEvent
    /\ UNCHANGED cvars

\* ------------------------------------------------------------------ the tick
\* a step of full length whatever the distance left
stepTowardFull(delta) == IF delta < 0 THEN -U(MAX_STEP) ELSE U(MAX_STEP)

\* Math.max(-maxStep, Math.min(maxStep, delta))
stepToward(delta) == Max(-U(MAX_STEP), Min(U(MAX_STEP), delta))

\* a paddle update whose result is not clamped to the field
PaddleMoveUnclamped(p) ==
    IF p.desiredY # NoTarget
    THEN [p EXCEPT !.y = p.y + stepToward(p.desiredY - (p.y + U(PADDLE_H) \div 2))]
    ELSE [p EXCEPT !.y = p.y + (IF p.up THEN -U(PADDLE_SPEED) ELSE 0)
                             + (IF p.down THEN U(PADDLE_SPEED) ELSE 0)]

\* paddle update of one participant (target mode, else the up/down flags)
PaddleMove(p) ==
    IF p.desiredY # NoTarget
    THEN LET currentCenter == p.y + U(PADDLE_H) \div 2
             delta == p.desiredY - currentCenter
             step == stepToward(delta)
         IN [p EXCEPT !.y = Max(0, Min(U(HEIGHT - PADDLE_H), p.y + step))]
    ELSE LET vy == (IF p.up THEN -U(PADDLE_SPEED) ELSE 0)
                   + (IF p.down THEN U(PADDLE_SPEED) ELSE 0)
         IN [p EXCEPT !.y = Max(0, Min(U(HEIGHT - PADDLE_H), p.y + vy))]

\* b.x += b.vx; b.y += b.vy
integrate(b) == [b EXCEPT !.x = b.x + b.vx, !.y = b.y + b.vy]

hitsTop(b) == b.y - U(BALL_R) <= 0 /\ b.vy < 0
hitsBottom(b) == b.y + U(BALL_R) >= U(HEIGHT) /\ b.vy > 0

\* a top wall that absorbs half of the vertical speed
reflectTopDamped(b) ==
    IF hitsTop(b) THEN [b EXCEPT !.y = U(BALL_R), !.vy = -(b.vy \div 2)] ELSE b

reflectTop(b) ==
    IF hitsTop(b) THEN [b EXCEPT !.y = U(BALL_R), !.vy = -b.vy] ELSE b

reflectBottom(b) ==
    IF hitsBottom(b)
    THEN [b EXCEPT !.y = U(HEIGHT) - U(BALL_R), !.vy = -b.vy] ELSE b

\* match.players.find((p) => p.side === side): index of the first, 0 if none
findSide(ps, side) ==
    IF \E i \in DOMAIN ps : ps[i].side = side
    THEN CHOOSE i \in DOMAIN ps :
            /\ ps[i].side = side
            /\ \A j \in DOMAIN ps : ps[j].side = side => i <= j
    ELSE 0

RightPadX == U(WIDTH - 20 - PADDLE_W)
LeftPadX == U(LEFT_PAD_X)

\* the overlap test of collide
overlaps(b, padX, padY) ==
    /\ b.x - U(BALL_R) < padX + U(PADDLE_W)
    /\ b.x + U(BALL_R) > padX
    /\ b.y + U(BALL_R) > padY
    /\ b.y - U(BALL_R) < padY + U(PADDLE_H)

\* (b.y - (padY + PADDLE_H / 2)) / (PADDLE_H / 2), times Scale
relativeOf(b, padY) ==
    Quot((b.y - (padY + U(PADDLE_H) \div 2)) * 1000, U(PADDLE_H) \div 2)

\* Math.PI / 4 in milliradians
maxBounce == 785

GAIN_PCT == 103

\* the gain applied with no cap
bounceSpeedUncapped(b) == Quot(Hypot(b.vx, b.vy) * GAIN_PCT, 100)

\* Math.min(Math.hypot(b.vx, b.vy) * 1.03, 12)
bounceSpeed(b) == Min(Quot(Hypot(b.vx, b.vy) * GAIN_PCT, 100), U(SPEED_CAP))

\* a response that leaves the ball where the overlap found it
pushOutNever(b, padX, isLeft) == b.x

\* the ball pushed out of the paddle face it moves toward
pushOut(b, padX, isLeft) ==
    LET x1 == IF b.vx < 0 /\ isLeft THEN padX + U(PADDLE_W) + U(BALL_R) ELSE b.x
    IN IF b.vx > 0 /\ ~isLeft THEN padX - U(BALL_R) ELSE x1

\* collide(padX, padY, isLeft) applied to the ball b
collide(b, padX, padY, isLeft) ==
    IF overlaps(b, padX, padY)
    THEN LET x == pushOut(b, padX, isLeft)
             relative == relativeOf(b, padY)
             speed == bounceSpeed(b)
             angle == Quot(relative * maxBounce, 1000)
             dir == IF isLeft THEN 1 ELSE -1
         IN [x |-> x, y |-> b.y,
             vx |-> Scaled(CosM(angle), speed) * dir,
             vy |-> Scaled(SinM(angle), speed)]
    ELSE b

\* a goal margin of three radii
exitsLeftWide(b) == b.x < -(U(BALL_R) * 3)

exitsLeft(b) == b.x < -(U(BALL_R) * 2)
exitsRight(b) == b.x > U(WIDTH) + U(BALL_R) * 2

\* a goal credited to every participant
creditAll(ps, i) ==
    [j \in DOMAIN ps |-> [ps[j] EXCEPT !.score = ps[j].score + 1]]

\* a goal counted twice
creditTwice(ps, i) ==
    IF i # 0 THEN [ps EXCEPT ![i].score = ps[i].score + 2] ELSE ps

\* score++ of the participant at index i (0: no such participant)
credit(ps, i) ==
    IF i # 0 THEN [ps EXCEPT ![i].score = ps[i].score + 1] ELSE ps

\* a tick that forgets match.seq++
NextSeqStuck(s) == s

\* match.seq++
NextSeq(s) == s + 1

\* a snapshot that shows a paddle at the start offset for a side nobody holds
paddleViewGhost(ps, i) ==
    IF i # 0 THEN [present |-> TRUE, y |-> ps[i].y, score |-> ps[i].score]
    ELSE [present |-> TRUE, y |-> U(HEIGHT) \div 2 - U(PADDLE_H) \div 2,
          score |-> 0]

paddleView(ps, i) ==
    IF i # 0 THEN [present |-> TRUE, y |-> ps[i].y, score |-> ps[i].score]
    ELSE [present |-> FALSE, y |-> 0, score |-> 0]

statePayload(s, b, ps, left, right) ==
    [type |-> "state", seq |-> s, serverTime |-> now, ball |-> b,
     left |-> paddleView(ps, left), right |-> paddleView(ps, right)]

\* one firing of the tick interval; a1, a2 are the angles Math.random()
\* gives the two resetBall calls, ws.send throws on the connections in fails:
\* the throw leaves broadcast and the interval callback, nothing catches it
\* and the process ends
TickWith(a1, a2, fails) ==
    LET ps1 == [i \in DOMAIN players |-> PaddleMove(players[i])]
        b0 == integrate(ball)
        b1 == reflectBottom(reflectTop(b0))
        left == findSide(ps1, "left")
        right == findSide(ps1, "right")
        hitL == left # 0 /\ overlaps(b1, LeftPadX, ps1[left].y)
        b2 == IF left # 0 THEN collide(b1, LeftPadX, ps1[left].y, TRUE) ELSE b1
        hitR == right # 0 /\ overlaps(b2, RightPadX, ps1[right].y)
        b3 == IF right # 0 THEN collide(b2, RightPadX, ps1[right].y, FALSE) ELSE b2
        outL == exitsLeft(b3)
        ps2 == IF outL THEN credit(ps1, right) ELSE ps1
        b4 == IF outL THEN resetBall(1, a1) ELSE b3
        outR == exitsRight(b4)
        ps3 == IF outR THEN credit(ps2, left) ELSE ps2
        b5 == IF outR THEN resetBall(-1, a2) ELSE b4
        s == NextSeq(seq)
        out == sentBefore(ps3, rs, statePayload(s, b5, ps3, left, right), fails)
    IN /\ outL \/ a1 = AnyAngle
       /\ outR \/ a2 = AnyAngle
       /\ players' = ps3
       /\ ball' = b5
       /\ seq' = s
       /\ sent' = out
       /\ alive' = (firstFail(ps3, rs, fails) = 0)
       /\ lastSeq' = [c \in Conns |-> IF out[c] # <<>> THEN s ELSE lastSeq[c]]
       /\ ev' = [tick |-> TRUE,
                 wall |-> hitsTop(b0) \/ hitsBottom(reflectTop(b0)),
                 hitLeft |-> hitL, hitRight |-> hitR,
                 exitLeft |-> outL, exitRight |-> outR]

\* the tick with ws.send throwing on the connections in fails
TickFailing(fails) ==
    /\ alive
    /\ \E a1, a2 \in ResetAngles : TickWith(a1, a2, fails)
    /\ UNCHANGED <<rs, handlers, intent, now, lastBeat>>
    /\ UNCHANGED cvars

\* the tick when every send succeeds
Tick == TickFailing({})

\* ------------------------------------------------------------ specifications
Next ==
    \/ \E c \in Conns : OnConnection(c)
    \/ \E c \in Conns : OnClose(c)
    \/ \E c \in Conns, m \in LifePayloads : OnMessage(c, m)
    \/ Heartbeat
    \/ (now < LifeBeats * HEARTBEAT_MS /\ AdvanceClock)
    \/ (seq < MaxSeq /\ Tick)

Spec == Init /\ [][Next]_vars

\* --------------------------------------------------- sends that can throw
\* the connections on which ws.send throws during one handler: none or one
FailSets == {{}} \cup {{c} : c \in Conns}

NextSend ==
    \/ \E c \in Conns : OnConnection(c)
    \/ \E c \in Conns, f \in FailSets : OnCloseWith(c, f)
    \/ \E f \in FailSets : (seq < MaxSeq /\ TickFailing(f))

SpecSend == Init /\ [][NextSend]_vars

\* ------------------------------------------------------- paddle control
\* touchMove to the top and to the middle of the field, and a key held down
PadPayloads ==
    {Payload("object", "touchMove", FALSE, FALSE, TRUE, 0),
     Payload("object", "touchMove", FALSE, FALSE, TRUE, U(HEIGHT) \div 2),
     Payload("object", "input", FALSE, TRUE, FALSE, 0)}

\* the first connection is the client that steers; the others only sit
NextPad ==
    \/ \E c \in Conns : OnConnection(c)
    \/ \E m \in PadPayloads : OnIntent(1, m)
    \/ (seq < MaxPadTicks /\ Tick)

InitPad == Init /\ ball = makeMatchBall(U(5), U(-4))

SpecPad == InitPad /\ [][NextPad]_vars

\* ------------------------------------------------- messages of every kind
\* a key pressed, a touch at the top of the field, an answer to a ping, and
\* payloads the handler does not know: an object of another type, text that
\* is not JSON, and the JSON text null
MsgPayloads ==
    {Payload("object", "input", TRUE, FALSE, FALSE, 0),
     Payload("object", "touchMove", FALSE, FALSE, TRUE, 0),
     Payload("object", "pong", FALSE, FALSE, FALSE, 0),
     Payload("object", "other", TRUE, FALSE, TRUE, U(250)),
     Payload("invalid", "other", FALSE, TRUE, TRUE, U(250)),
     Payload("null", "other", FALSE, TRUE, TRUE, U(250))}

NextMsg ==
    \/ \E c \in Conns : OnConnection(c)
    \/ \E c \in Conns, m \in MsgPayloads : OnMessage(c, m)
    \/ (now < LifeBeats * HEARTBEAT_MS /\ AdvanceClock)
    \/ (seq < MaxSeq /\ Tick)

SpecMsg == InitPad /\ [][NextMsg]_vars

\* ------------------------------------------------ the heartbeat over time
\* clients that answer the pings or stay silent
BeatPayloads == {Payload("object", "pong", FALSE, FALSE, FALSE, 0)}

\* the close event of a connection the server has closed or terminated
CloseCompletes(c) == rs[c] = "CLOSING" /\ OnClose(c)

\* time passes, up to MaxBeats heartbeat periods
ClockRuns == now < MaxBeats * HEARTBEAT_MS /\ AdvanceClock

NextBeat ==
    \/ \E c \in Conns : OnConnection(c)
    \/ \E c \in Conns : OnClose(c)
    \/ \E c \in Conns, m \in BeatPayloads : OnMessage(c, m)
    \/ Heartbeat
    \/ ClockRuns

\* the interval timer fires every due heartbeat cycle, time passes, and the
\* close event of a connection the server closed or terminated is delivered
SpecBeat ==
    /\ Init /\ [][NextBeat]_vars
    /\ WF_vars(Heartbeat)
    /\ WF_vars(ClockRuns)
    /\ \A c \in Conns : WF_vars(CloseCompletes(c))

\* ------------------------------------- heartbeats and application messages
\* clients that answer the pings, press a key, touch the field, or stay
\* silent
AlivePayloads ==
    BeatPayloads
    \cup {Payload("object", "input", TRUE, FALSE, FALSE, 0),
          Payload("object", "touchMove", FALSE, FALSE, TRUE, 0)}

NextAlive ==
    \/ \E c \in Conns : OnConnection(c)
    \/ \E c \in Conns : OnClose(c)
    \/ \E c \in Conns, m \in AlivePayloads : OnMessage(c, m)
    \/ Heartbeat
    \/ ClockRuns

SpecAlive == InitPad /\ [][NextAlive]_vars

\* ------------------------------------------------- states deep in a match
\* The ball k ticks after it left b with no paddle in its way and no goal
\* reached: integration and wall reflection only.
FreeTick(b) == reflectBottom(reflectTop(integrate(b)))

RECURSIVE Fly(_, _)
Fly(b, k) ==
    IF k = 0 THEN b
    ELSE IF k = 1 THEN FreeTick(b)
    ELSE CHOOSE r \in {Fly(nb, k - k \div 2) : nb \in {Fly(b, k \div 2)}} : TRUE

\* flights of a ball re-armed by resetBall: up to a paddle, inside its
\* columns, and up to a goal margin
ResetFlights == {73, 77, 85}

ResetBalls ==
    {Fly(resetBall(dir, a), k) : dir \in {1, -1}, a \in ResetAngles,
                                 k \in ResetFlights}

\* a ball leaving the face of the left (right) paddle after a collision in
\* which the ball's centre was dy below the paddle's centre, at the speed the
\* gain gives a ball that came in at speed v
Struck(isLeft, dy, v) ==
    LET padX == IF isLeft THEN LeftPadX ELSE RightPadX
        padY == U(HEIGHT) \div 2 - U(PADDLE_H) \div 2
        inX == IF isLeft THEN padX + U(PADDLE_W) + U(BALL_R) - 1
               ELSE padX - U(BALL_R) + 1
    IN collide([x |-> inX, y |-> padY + U(PADDLE_H) \div 2 + dy,
                vx |-> IF isLeft THEN -v ELSE v, vy |-> 0],
               padX, padY, isLeft)

\* first return of a re-armed ball: ticks flown up to the other paddle and
\* up to the goal margin behind it
SlowFlights == {139, 149}

SlowBalls(isLeft) == {Fly(Struck(isLeft, 0, U(RESET_SPEED)), k) : k \in SlowFlights}

\* a long rally, the ball at the speed cap: (offset of the impact, ticks
\* flown since), chosen before a wall, before the other paddle and, the last
\* one, past the other paddle before a wall met at the goal margin
FastRallies ==
    {<<0, 59>>, <<U(30), 35>>, <<-U(30), 68>>, <<U(50), 72>>, <<41500, 85>>}

FastBalls ==
    {Fly(Struck(l, r[1], U(SPEED_CAP) - 200), r[2]) :
        l \in BOOLEAN, r \in FastRallies}

\* paddle offsets the moves of PaddleMove reach from the start offset
PhysPadY == {0, U(150), U(205), U(410)}

Seated(c, side, y) ==
    [ws |-> c, side |-> side, y |-> y, score |-> 0, up |-> FALSE,
     down |-> FALSE, lastPong |-> 0, desiredY |-> NoTarget]

LeftOnly == {<<Seated(1, "left", y)>> : y \in PhysPadY}

BothSeated ==
    {<<Seated(1, "left", y), Seated(2, "right", U(HEIGHT - PADDLE_H) - y)>> :
        y \in PhysPadY}

\* participants and ball together: a ball struck by a paddle needs the
\* participant of that side, a ball at the speed cap needs both
PhysCandidates ==
    {<<ps, b>> : ps \in {<<>>} \cup LeftOnly \cup BothSeated, b \in ResetBalls}
    \cup {<<ps, b>> : ps \in LeftOnly \cup BothSeated, b \in SlowBalls(TRUE)}
    \cup {<<ps, b>> : ps \in BothSeated, b \in SlowBalls(FALSE) \cup FastBalls}

\* a tick ends with the ball clear of every paddle present (collide has
\* pushed it out), and the flights above have no paddle in the ball's way
ClearOfPaddles(ps, b) ==
    \A i \in DOMAIN ps :
        ~overlaps(b, IF ps[i].side = "left" THEN LeftPadX ELSE RightPadX, ps[i].y)

PhysStates == {st \in PhysCandidates : ClearOfPaddles(st[1], st[2])}

\* a match SeqStart ticks after its last teardown
InitPhys ==
    /\ \E st \in PhysStates : players = st[1] /\ ball = st[2]
    /\ seq = SeqStart
    /\ rs = [c \in Conns |-> IF c \in Participants THEN "OPEN" ELSE "NEW"]
    /\ handlers = Participants
    /\ sent = NoneSent
    /\ lastSeq = [c \in Conns |-> IF c \in Participants THEN SeqStart ELSE 0]
    /\ intent = NoIntent
    /\ now = 0
    /\ lastBeat = 0
    /\ alive = TRUE
    /\ ev = NoEvent
    /\ ClientInit

NextPhys ==
    \/ \E c \in Conns, m \in Payloads : OnMessage(c, m)
    \/ (seq < SeqStart + MaxPhysTicks /\ Tick)

SpecPhys == InitPhys /\ [][NextPhys]_vars

\* ------------------------------------------- paddles at the field's edges
\* keys held up and down, and touches far above and far below the field
FarAway == 100000

EdgePayloads ==
    {Payload("object", "input", TRUE, FALSE, FALSE, 0),
     Payload("object", "input", FALSE, TRUE, FALSE, 0),
     Payload("object", "touchMove", FALSE, FALSE, TRUE, -U(FarAway)),
     Payload("object", "touchMove", FALSE, FALSE, TRUE, U(FarAway))}

\* a match of two, the ball on its first return
InitEdge == InitPhys /\ Len(players) = 2 /\ ball \in SlowBalls(TRUE)

\* the first connection is the client that steers
NextEdge ==
    \/ \E m \in EdgePayloads : OnMessage(1, m)
    \/ (seq < SeqStart + MaxPhysTicks /\ Tick)

SpecEdge == InitEdge /\ [][NextEdge]_vars

\* ------------------------------------------------------------- the client
\* (client/src/components/GameEngine.tsx: the state branch of ws.onmessage
\* and sampleState of the render loop; times in ms, alpha in thousandths)

\* division rounding toward zero, for a divisor of either sign
QuotS(a, b) == IF b > 0 THEN Quot(a, b) ELSE -Quot(a, -b)

\* the entry ws.onmessage pushes for a state message
entryOf(msg) ==
    [t |-> msg.serverTime, ball |-> [x |-> msg.ball.x, y |-> msg.ball.y],
     left |-> msg.left, right |-> msg.right]

\* an eviction that keeps a single entry
evictToOne(b, cutoff) ==
    IF Len(b) > 1 /\ b[1].t < cutoff
    THEN [k \in 1..(Len(b) - 1) |-> b[k + 1]] ELSE b

\* while (buf.length > 2 && buf[0].t < cutoff) buf.shift()
RECURSIVE evict(_, _)
evict(b, cutoff) ==
    IF Len(b) > 2 /\ b[1].t < cutoff THEN evict(Tail(b), cutoff) ELSE b

\* the state branch of ws.onmessage
Ingest(msg) ==
    /\ buf' = evict(Append(buf, entryOf(msg)), pnow - BUFFER_MS)
    /\ ingested' = ingested + 1
    /\ shown' = NotShown
    /\ UNCHANGED pnow
    /\ UNCHANGED svars

lerp(a, b, alpha) == a + Quot((b - a) * alpha, 1000)
clamp01(v) == Max(0, Min(1000, v))

\* a scan that tests the entry at i instead of the one before it
scanBackAtI(b, renderTime, i) ==
    IF i > 1 /\ b[i].t > renderTime THEN i - 1 ELSE i

\* let i = buf.length - 1; while (i > 0 && buf[i - 1].t > renderTime) i--
\* (indices from 1)
RECURSIVE scanBack(_, _, _)
scanBack(b, renderTime, i) ==
    IF i > 1 /\ b[i - 1].t > renderTime THEN scanBack(b, renderTime, i - 1)
    ELSE i

\* the pair sampleState interpolates between
prevOf(b, renderTime) == b[Max(1, scanBack(b, renderTime, Len(b)) - 1)]
nextOf(b, renderTime) == b[scanBack(b, renderTime, Len(b))]

alphaOf(b, renderTime) ==
    LET prev == prevOf(b, renderTime)
        next == nextOf(b, renderTime)
        total == IF next.t - prev.t = 0 THEN 1 ELSE next.t - prev.t
    IN clamp01(QuotS((renderTime - prev.t) * 1000, total))

\* one paddle of the sample
samplePaddle(p, n, alpha) ==
    IF n.present /\ p.present
    THEN [present |-> TRUE, y |-> lerp(p.y, n.y, alpha), score |-> n.score]
    ELSE IF n.present THEN n ELSE p

\* sampleState(renderTime) on the buffer b; null when the buffer is empty
sampleState(b, renderTime) ==
    IF Len(b) = 0 THEN [null |-> TRUE]
    ELSE LET prev == prevOf(b, renderTime)
             next == nextOf(b, renderTime)
             alpha == alphaOf(b, renderTime)
         IN [null |-> FALSE,
             ball |-> [x |-> lerp(prev.ball.x, next.ball.x, alpha),
                       y |-> lerp(prev.ball.y, next.ball.y, alpha)],
             left |-> samplePaddle(prev.left, next.left, alpha),
             right |-> samplePaddle(prev.right, next.right, alpha)]

\* a scan that shifts away the oldest entry it leaves behind
bufAfterSampleShift(b, renderTime) ==
    IF Len(b) > 2 /\ b[2].t <= renderTime THEN Tail(b) ELSE b

\* the buffer when sampleState returns: it reads buf and writes nothing
bufAfterSample(b, renderTime) == b

\* a frame of the render loop samples the buffer at renderTime; again notes
\* a call that repeats the one before it, the buffer not having changed
Draw(renderTime) ==
    /\ shown' = [called |-> TRUE, renderTime |-> renderTime,
                 i |-> scanBack(buf, renderTime, Len(buf)),
                 alpha |-> IF Len(buf) = 0 THEN 0 ELSE alphaOf(buf, renderTime),
                 pose |-> sampleState(buf, renderTime),
                 again |-> shown.called /\ shown.renderTime = renderTime]
    /\ buf' = bufAfterSample(buf, renderTime)
    /\ UNCHANGED <<pnow, ingested>>
    /\ UNCHANGED svars

\* performance.now() advances
ClientStep == 2000

ClientClock ==
    /\ pnow' = pnow + ClientStep
    /\ shown' = NotShown
    /\ UNCHANGED <<buf, ingested>>
    /\ UNCHANGED svars

\* state messages of the server: server times, and two scenes (left alone;
\* both present, the ball and the left paddle elsewhere, left having scored)
SnapTimes == {0, 1000, 2000}

Scene(k) ==
    IF k = 1
    THEN [ball |-> [x |-> U(100), y |-> U(200), vx |-> U(5), vy |-> 0],
          left |-> [present |-> TRUE, y |-> U(205), score |-> 0],
          right |-> [present |-> FALSE, y |-> 0, score |-> 0]]
    ELSE [ball |-> [x |-> U(300), y |-> U(50), vx |-> U(5), vy |-> 0],
          left |-> [present |-> TRUE, y |-> U(100), score |-> 1],
          right |-> [present |-> TRUE, y |-> U(410), score |-> 0]]

Snapshots ==
    {[type |-> "state", seq |-> 1, serverTime |-> t, ball |-> Scene(k).ball,
      left |-> Scene(k).left, right |-> Scene(k).right] :
        t \in SnapTimes, k \in 1..2}

\* Date.now() - lagCompMs of the frames
RenderTimes == {-500, 0, 500, 1000, 2000, 2500}

NextClient ==
    \/ \E msg \in Snapshots : (ingested < MaxIngest /\ Ingest(msg))
    \/ \E renderTime \in RenderTimes : Draw(renderTime)
    \/ (pnow < MaxClientSteps * ClientStep /\ ClientClock)

SpecClient == InitPad /\ [][NextClient]_vars

\* ------------------------------------------- a stream of stamped snapshots
\* Date.now() at the page's time origin, in ms: performance.now() counts
\* from it.  (A stand-in for a value near 1.7 * 10^12; what matters is that
\* it is far above every performance.now() of a session.)
TimeOrigin == 1000000

\* Date.now() of the client, and of a server whose clock agrees with it
WallClock == TimeOrigin + pnow

\* the state messages that reach the client now: serverTime is the
\* server's Date.now(), the network taking no time
StampedSnapshots ==
    {[type |-> "state", seq |-> 1, serverTime |-> WallClock,
      ball |-> Scene(k).ball, left |-> Scene(k).left,
      right |-> Scene(k).right] : k \in 1..2}

\* a frame samples at Date.now() - lagCompMs
NextStream ==
    \/ \E msg \in StampedSnapshots : (ingested < MaxIngest /\ Ingest(msg))
    \/ Draw(WallClock - LAG_COMP_MS)
    \/ (pnow < MaxClientSteps * ClientStep /\ ClientClock)

SpecStream == InitPad /\ [][NextStream]_vars


\* ======================================================= session lifecycle
EndNotice == [type |-> "end", reason |-> "player_left"]
FullNotice == [type |-> "full"]

\* the step delivers the close event of connection c, whose handler is set
ClosesParticipant(c) ==
    c \in Participants /\ rs[c] # "CLOSED" /\ rs'[c] = "CLOSED"

\* the step is the arrival of connection c
Arrives(c) == rs[c] = "NEW" /\ rs'[c] # "NEW"

\* C1: in every reachable state the participant list of the match holds at
\* most two participants.
C1_AtMostTwo == Len(players) <= 2

\* two participants are seated and a further connection was just turned away
C1_Witness ==
    Len(players) = 2 /\ \E c \in Conns : sent[c] = <<FullNotice>>

\* C2: the close of a participant's connection tears the whole match down:
\* every other participant whose connection is open is sent
\* end{reason: "player_left"}, no participant connection stays open, and the
\* participant list is empty afterwards (never one participant left over).
C2_CloseTearsDown ==
    [][\A c \in Conns :
          ClosesParticipant(c) =>
              /\ players' = <<>>
              /\ \A d \in Participants :
                    /\ rs'[d] # "OPEN"
                    /\ (d # c /\ rs[d] = "OPEN") => sent'[d] = <<EndNotice>>]_vars

\* the match of two was just torn down: the other participant got the end
\* notice and its connection is closing
C2_Witness ==
    /\ players = <<>>
    /\ \E c, d \in Conns :
          /\ c # d
          /\ rs[c] = "CLOSED" /\ c \in handlers
          /\ rs[d] = "CLOSING" /\ sent[d] = <<EndNotice>>

\* C3: a connection arriving while two participants are present is sent
\* `full` and closed, is never a participant, and leaves participants, sides,
\* paddle offsets, scores, ball and sequence number as they were.
C3_FullRejected ==
    /\ [](\A c \in Participants : c \in handlers)
    /\ [][\A c \in Conns :
             (Arrives(c) /\ Len(players) >= 2) =>
                 /\ sent'[c] = <<FullNotice>>
                 /\ rs'[c] = "CLOSING"
                 /\ c \notin handlers'
                 /\ players' = players
                 /\ ball' = ball
                 /\ seq' = seq]_vars

\* a connection was turned away from a match that had already ticked
C3_Witness ==
    /\ Len(players) = 2
    /\ seq > 0
    /\ \E c \in Conns : c \notin handlers /\ sent[c] = <<FullNotice>>

\* C4: participants hold distinct sides, the first admitted is "left" and
\* the second "right", and a participant's side never changes while it is
\* in the list.
C4_Sides ==
    /\ [](/\ \A i, j \in DOMAIN players :
                i # j => players[i].side # players[j].side
          /\ Len(players) >= 1 => players[1].side = "left"
          /\ Len(players) >= 2 => players[2].side = "right")
    /\ [][\A i \in DOMAIN players, j \in DOMAIN players' :
             players[i].ws = players'[j].ws =>
                 players[i].side = players'[j].side]_vars

\* both sides are taken and the match has ticked with both
C4_Witness ==
    /\ Len(players) = 2
    /\ ev.tick
    /\ lastSeq[players[1].ws] > 0 /\ lastSeq[players[2].ws] > 0

\* C5: a teardown leaves the participant list empty and the ball at the
\* field centre, and the next admitted connection gets side "left", score 0
\* and a paddle centred vertically.
C5_FreshAfterTeardown ==
    [][/\ (\E c \in Conns : c \in handlers /\ rs[c] # "CLOSED" /\ rs'[c] = "CLOSED")
            => /\ players' = <<>>
               /\ ball'.x = U(WIDTH) \div 2
               /\ ball'.y = U(HEIGHT) \div 2
       /\ (players = <<>> /\ players' # <<>>)
            => /\ Len(players') = 1
               /\ players'[1].side = "left"
               /\ players'[1].score = 0
               /\ 2 * players'[1].y + U(PADDLE_H) = U(HEIGHT)]_vars

\* a connection was admitted as the first participant after a teardown
C5_Witness ==
    /\ Len(players) = 1
    /\ \E c \in Conns : c \in handlers /\ rs[c] = "CLOSED"
    /\ \E c \in Conns : sent[c] = <<InitMsg("left")>>

\* C6: every tick increases the sequence number by exactly one, and the seq
\* of every state snapshot written to a connection is greater than the seq
\* of the snapshot written to it before, teardowns included.
C6_SeqIncreasing ==
    [][/\ ev'.tick => seq' = seq + 1
       /\ \A c \in Conns :
             (sent'[c] # <<>> /\ sent'[c][1].type = "state") =>
                 /\ sent'[c][1].seq = seq'
                 /\ sent'[c][1].seq > lastSeq[c]]_vars

\* a participant admitted after a teardown has been sent two snapshots
C6_Witness ==
    \E c, d \in Conns :
        /\ d \in handlers /\ rs[d] = "CLOSED"
        /\ c \in Participants
        /\ lastSeq[c] = 2
        /\ sent[c] # <<>> /\ sent[c][1].type = "state"


\* ================================================================== the tick
AtCentre(b) == b.x = U(WIDTH) \div 2 /\ b.y = U(HEIGHT) \div 2

\* the step is a tick in which the ball passed beyond a goal margin
GoalTick == ev'.tick /\ (ev'.exitLeft \/ ev'.exitRight)

\* the side credited for the goal of the step
Scorer == IF ev'.exitLeft THEN "right" ELSE "left"

\* C7 as stated: in every tick in which the ball passes beyond a goal margin
\* exactly one side's score is incremented, by exactly one, the side opposite
\* to the goal the ball exited, and the ball is at the centre afterwards.
C7_ExactlyOneScores ==
    [][GoalTick =>
          /\ \E i \in DOMAIN players :
                /\ players[i].side = Scorer
                /\ players'[i].score = players[i].score + 1
                /\ \A j \in DOMAIN players :
                      j # i => players'[j].score = players[j].score
          /\ AtCentre(ball')]_vars

\* C7 amended: in every tick in which the ball passes beyond a goal margin
\* the participant on the side opposite to the goal exited, when there is
\* one, has its score incremented by exactly one, no other score changes
\* (none at all when that side is unoccupied), and the ball is at the centre
\* afterwards.
C7_OppositeSideScores ==
    [][GoalTick =>
          /\ DOMAIN players' = DOMAIN players
          /\ \A i \in DOMAIN players :
                players'[i].score =
                    players[i].score + (IF players[i].side = Scorer THEN 1 ELSE 0)
          /\ AtCentre(ball')]_vars

\* the ball left through the left goal of a match of two: right has scored
C7_Witness ==
    /\ ev.tick /\ ev.exitLeft
    /\ Len(players) = 2
    /\ players[1].score = 0 /\ players[2].score = 1
    /\ AtCentre(ball)

\* C8: every participant's score is a non-negative integer, and from one
\* state to the next it stays or grows by exactly one while the participant
\* is in the match.
C8_ScoreSteps ==
    /\ [](\A i \in DOMAIN players : players[i].score \in Nat)
    /\ [][\A i \in DOMAIN players, j \in DOMAIN players' :
             players[i].ws = players'[j].ws =>
                 \/ players'[j].score = players[i].score
                 \/ players'[j].score = players[i].score + 1]_vars

\* the left participant has just been credited a goal through the right
C8_Witness ==
    /\ ev.tick /\ ev.exitRight
    /\ Len(players) = 2
    /\ players[1].score = 1

\* C9: at the end of every tick the ball is within
\* [-2*BALL_R, WIDTH + 2*BALL_R] horizontally and [0, HEIGHT] vertically.
C9_BallInField ==
    ev.tick =>
        /\ -(2 * U(BALL_R)) <= ball.x /\ ball.x <= U(WIDTH) + 2 * U(BALL_R)
        /\ 0 <= ball.y /\ ball.y <= U(HEIGHT)

\* a tick in which the ball crossed the left goal margin ended
C9_Witness == ev.tick /\ ev.exitLeft /\ AtCentre(ball)

\* the ball's bounding box against the columns and the rows of a paddle
InFrontOf(b, isLeft) ==
    IF isLeft THEN b.x - U(BALL_R) >= LeftPadX + U(PADDLE_W)
    ELSE b.x + U(BALL_R) <= RightPadX

InRowsOf(b, padY) ==
    b.y + U(BALL_R) > padY /\ b.y - U(BALL_R) < padY + U(PADDLE_H)

\* C10: after a tick in which the collision response ran for a paddle the
\* ball's bounding box does not overlap that paddle, and a ball in front of
\* a paddle is never, one tick later, past the paddle's face within the
\* paddle's rows without the response having run.
C10_NoOverlapNoTunnel ==
    [][ev'.tick =>
          LET left == findSide(players', "left")
              right == findSide(players', "right")
          IN /\ ev'.hitLeft => ~overlaps(ball', LeftPadX, players'[left].y)
             /\ ev'.hitRight => ~overlaps(ball', RightPadX, players'[right].y)
             /\ (/\ left # 0 /\ InFrontOf(ball, TRUE)
                 /\ ~ev'.exitLeft /\ ~ev'.exitRight
                 /\ InRowsOf(ball', players'[left].y)
                 /\ ~ev'.hitLeft) => InFrontOf(ball', TRUE)
             /\ (/\ right # 0 /\ InFrontOf(ball, FALSE)
                 /\ ~ev'.exitLeft /\ ~ev'.exitRight
                 /\ InRowsOf(ball', players'[right].y)
                 /\ ~ev'.hitRight) => InFrontOf(ball', FALSE)]_vars

\* a ball at the speed cap was stopped by the right paddle and put on its face
C10_Witness ==
    /\ ev.tick /\ ev.hitRight
    /\ ball.x = RightPadX - U(BALL_R)
    /\ Hypot(ball.vx, ball.vy) >= U(SPEED_CAP) - 10


\* the speed of a ball, rounded down to a model unit
SpeedOf(b) == Hypot(b.vx, b.vy)

\* the step is a tick in which exactly the collision response changed the
\* velocity: a paddle was hit and no goal re-armed the ball
BounceTick == ev'.tick /\ (ev'.hitLeft \/ ev'.hitRight)
              /\ ~ev'.exitLeft /\ ~ev'.exitRight

\* C11: the ball's speed never exceeds the cap of 12 units per tick; a tick
\* with a paddle collision leaves the speed at min(speed before * 1.03, 12)
\* (speeds rounded down to a model unit, the two components of the velocity
\* each losing at most one), and a
\* re-armed ball and a ball reflected by a wall are not above the cap.
C11_SpeedCapped ==
    /\ [](SpeedOf(ball) <= U(SPEED_CAP))
    /\ [][/\ BounceTick =>
               /\ SpeedOf(ball') <= bounceSpeed(ball)
               /\ SpeedOf(ball') >= bounceSpeed(ball) - 2
          /\ (ev'.tick /\ ev'.wall /\ ~ev'.hitLeft /\ ~ev'.hitRight
                /\ ~ev'.exitLeft /\ ~ev'.exitRight) =>
                   SpeedOf(ball') = SpeedOf(ball)
          /\ (ev'.tick /\ (ev'.exitLeft \/ ev'.exitRight)) =>
                   SpeedOf(ball') <= U(RESET_SPEED)]_vars

\* the left paddle struck a ball whose gain the cap cut off
C11_Witness ==
    /\ ev.tick /\ ev.hitLeft
    /\ SpeedOf(ball) >= U(SPEED_CAP) - 2
    /\ ball.vx > 0


\* the step is a tick in which the moved ball reached the top (bottom) wall
\* while moving toward it
TopBounce == ev'.tick /\ hitsTop(integrate(ball))
BottomBounce == ev'.tick /\ hitsBottom(integrate(ball))

NoPaddleHit == ~ev'.hitLeft /\ ~ev'.hitRight
NoGoal == ~ev'.exitLeft /\ ~ev'.exitRight

\* C12 as stated: in a tick in which the ball's edge reaches the top or the
\* bottom boundary while moving toward it and no paddle collision occurs, vy
\* after the tick is the negation of vy before it, vx is unchanged and the
\* ball touches the boundary from inside.
C12_WallBounce ==
    [][/\ (TopBounce /\ NoPaddleHit) =>
              /\ ball'.vy = -ball.vy /\ ball'.vx = ball.vx
              /\ ball'.y = U(BALL_R)
       /\ (BottomBounce /\ NoPaddleHit) =>
              /\ ball'.vy = -ball.vy /\ ball'.vx = ball.vx
              /\ ball'.y = U(HEIGHT) - U(BALL_R)]_vars

\* C12 amended: the same, for a tick in which the ball also does not pass a
\* goal margin (a ball that does is re-armed at the centre by that tick).
C12_WallBounceNoGoal ==
    [][/\ (TopBounce /\ NoPaddleHit /\ NoGoal) =>
              /\ ball'.vy = -ball.vy /\ ball'.vx = ball.vx
              /\ ball'.y = U(BALL_R)
       /\ (BottomBounce /\ NoPaddleHit /\ NoGoal) =>
              /\ ball'.vy = -ball.vy /\ ball'.vx = ball.vx
              /\ ball'.y = U(HEIGHT) - U(BALL_R)]_vars

\* a ball was just reflected by the top wall and moves down
C12_Witness ==
    /\ ev.tick /\ ev.wall /\ ~ev.hitLeft /\ ~ev.hitRight
    /\ ball.y = U(BALL_R) /\ ball.vy > 0


\* ================================================================= messages
\* a payload that is not valid JSON, or valid JSON of no known message shape
Malformed(m) ==
    \/ m.json # "object"
    \/ m.type \notin {"input", "pong", "touchMove"}
    \/ (m.type = "touchMove" /\ ~m.numY)

\* C13: a payload that is not valid JSON, or is valid JSON of no known
\* message shape (values that are not objects and touchMove without a
\* numeric desiredY included), is ignored: the step that receives it changes
\* no field of the match or of a participant, sends nothing, and the server
\* keeps running.
C13_MalformedIgnored ==
    [][\A c \in Conns, m \in LifePayloads :
          (Malformed(m) /\ OnMessage(c, m)) =>
              /\ UNCHANGED <<players, ball, seq, rs, handlers>>
              /\ sent' = NoneSent
              /\ alive']_vars


\* ws.send throws for an open participant in fails during the step, which
\* is a tick
FailedBroadcast(f) ==
    /\ TickFailing(f)
    /\ \E c \in f : c \in Participants /\ rs[c] = "OPEN"

\* C14: a send failure for one participant during the broadcast of a tick
\* is isolated: every other participant with an open connection is still
\* written the snapshot of that tick, and the tick loop goes on (the server
\* is running after the tick, to tick and increment seq again).
C14_SendFailureIsolated ==
    [][\A f \in FailSets :
          FailedBroadcast(f) =>
              /\ \A d \in Participants :
                    (d \notin f /\ rs[d] = "OPEN") =>
                        /\ sent'[d] # <<>>
                        /\ sent'[d][1].type = "state"
                        /\ sent'[d][1].seq = seq'
              /\ alive']_vars


\* =============================================================== heartbeat
\* the participant record of connection c
PlayerOf(c) == players[CHOOSE i \in DOMAIN players : players[i].ws = c]

\* the step is a heartbeat cycle
BeatStep == lastBeat' # lastBeat

\* C15: a participant whose last recorded pong is more than 10000 ms old
\* when a heartbeat cycle runs has its connection terminated in that cycle;
\* the close event of a terminated connection tears the match down as a
\* graceful close does (end notice with reason "player_left" to the open
\* participants, participant list emptied); hence a participant that has
\* never answered since time 0 is eventually removed.
C15_StaleTerminated ==
    /\ [][BeatStep =>
             \A c \in Participants :
                 now - PlayerOf(c).lastPong > PONG_TIMEOUT_MS => rs'[c] # "OPEN"]_vars
    /\ [][\A c \in Participants :
             (rs[c] = "CLOSING" /\ rs'[c] = "CLOSED") =>
                 /\ players' = <<>>
                 /\ \A d \in Participants :
                       /\ rs'[d] # "OPEN"
                       /\ (d # c /\ rs[d] = "OPEN") => sent'[d] = <<EndNotice>>]_vars
    /\ \A c \in Conns :
          (c \in Participants /\ now = 0)
              ~> (c \notin Participants \/ PlayerOf(c).lastPong > 0)

\* a participant whose pong is too old was terminated by the heartbeat cycle
\* and is still in the list, its close event pending, the other one open
C15_Witness ==
    \E c, d \in Participants :
        /\ rs[c] = "CLOSING" /\ rs[d] = "OPEN"
        /\ now = lastBeat
        /\ now - PlayerOf(c).lastPong > PONG_TIMEOUT_MS


\* ========================================================== paddle control
CentreOf(p) == p.y + U(PADDLE_H) \div 2

\* the clamped target of touchMove{desiredY: 0}
TopTarget == U(PADDLE_H) \div 2

\* C16: in a tick a paddle in target mode moves its centre toward the
\* clamped target by the bounded step of 18, or by the distance left when
\* that is shorter, so it never overshoots the target and reaches it
\* exactly; with the target of touchMove{desiredY: 0} the offset decreases
\* by at most 18 per tick, reaches exactly 0, is never below 0 and stays 0.
C16_TargetConverges ==
    /\ [](\A i \in DOMAIN players :
             0 <= players[i].y /\ players[i].y <= U(HEIGHT - PADDLE_H))
    /\ [][ev'.tick =>
             \A i \in DOMAIN players :
                 players[i].desiredY # NoTarget =>
                     LET t == players[i].desiredY
                         c0 == CentreOf(players[i])
                         c1 == CentreOf(players'[i])
                     IN /\ Abs(c1 - c0) <= U(MAX_STEP)
                        /\ c0 >= t => (t <= c1 /\ c1 <= c0)
                        /\ c0 <= t => (c0 <= c1 /\ c1 <= t)
                        /\ Abs(t - c1) = Max(0, Abs(t - c0) - U(MAX_STEP))
                        /\ t = TopTarget =>
                              /\ players'[i].y <= players[i].y
                              /\ players'[i].y >= 0
                              /\ players[i].y = 0 => players'[i].y = 0]_vars

\* thirteen ticks after touchMove{desiredY: 0} reached a paddle at its start
\* offset, the paddle is at offset 0, the last step having been a short one
C16_Witness ==
    /\ ev.tick /\ seq = 13
    /\ Len(players) >= 1
    /\ players[1].desiredY = TopTarget
    /\ players[1].y = 0
    /\ intent[1] = "touchMove"


\* the offset a paddle gets from the up/down flags alone
ByFlags(p) ==
    Max(0, Min(U(HEIGHT - PADDLE_H),
               p.y + (IF p.up THEN -U(PADDLE_SPEED) ELSE 0)
                   + (IF p.down THEN U(PADDLE_SPEED) ELSE 0)))

\* C17: the paddle motion a tick applies is that of the movement intent
\* received last: a participant whose last intent is an input{up,down}
\* message moves by the up/down flags, also when a touchMove came before it,
\* and one whose last intent is a touchMove moves toward its target.
C17_LastIntentWins ==
    [][ev'.tick =>
          \A i \in DOMAIN players :
              /\ intent[players[i].ws] = "input" =>
                     players'[i].y = ByFlags(players[i])
              /\ intent[players[i].ws] = "touchMove" =>
                     Abs(players[i].desiredY - CentreOf(players'[i]))
                         <= Abs(players[i].desiredY - CentreOf(players[i]))]_vars


\* ================================================================== client
\* C18: eviction on ingest never takes the buffer below two entries: the
\* buffer holds at least two entries once two snapshots have been ingested,
\* and at least one after the first, however old the entries are.
C18_KeepsTwo ==
    /\ Len(buf) <= ingested
    /\ Len(buf) >= Min(2, ingested)

\* three or more snapshots were ingested and eviction stopped at two
\* entries that are both older than the cutoff
C18_Witness ==
    /\ ingested >= 3
    /\ Len(buf) = 2
    /\ buf[1].t < pnow - BUFFER_MS /\ buf[2].t < pnow - BUFFER_MS


\* the buffer is ordered by timestamp
Ordered(b) == \A k \in 1..(Len(b) - 1) : b[k].t <= b[k + 1].t

Between(v, a, b) == Min(a, b) <= v /\ v <= Max(a, b)

\* v is a + (b - a) * alpha, to the model unit the rounding costs
Interpolates(v, a, b, alpha) ==
    Abs((v - a) * 1000 - (b - a) * alpha) < 1000

\* sampleState was called with a renderTime inside the range of an ordered
\* buffer of two entries or more
SampledInRange ==
    /\ shown.called
    /\ Len(buf) >= 2 /\ Ordered(buf)
    /\ buf[1].t <= shown.renderTime /\ shown.renderTime <= buf[Len(buf)].t

\* C19: for a buffer ordered by timestamp with two entries or more and a
\* renderTime within [oldest.t, newest.t], sampleState picks an adjacent
\* pair (prev, next) with prev.t <= renderTime <= next.t, alpha is in [0, 1]
\* and is (renderTime - prev.t) / (next.t - prev.t) where the two times
\* differ, and the sampled ball and paddle coordinates are the
\* interpolation at alpha, between the values of prev and next.
C19_Interpolates ==
    SampledInRange =>
        LET i == shown.i
            prev == buf[i - 1]
            next == buf[i]
            a == shown.alpha
            s == shown.pose
        IN /\ i >= 2 /\ i <= Len(buf)
           /\ prev.t <= shown.renderTime /\ shown.renderTime <= next.t
           /\ 0 <= a /\ a <= 1000
           /\ next.t > prev.t =>
                 a = ((shown.renderTime - prev.t) * 1000) \div (next.t - prev.t)
           /\ ~s.null
           /\ Between(s.ball.x, prev.ball.x, next.ball.x)
           /\ Between(s.ball.y, prev.ball.y, next.ball.y)
           /\ Interpolates(s.ball.x, prev.ball.x, next.ball.x, a)
           /\ Interpolates(s.ball.y, prev.ball.y, next.ball.y, a)
           /\ (prev.left.present /\ next.left.present) =>
                 /\ s.left.present
                 /\ Between(s.left.y, prev.left.y, next.left.y)
                 /\ Interpolates(s.left.y, prev.left.y, next.left.y, a)
           /\ (prev.right.present /\ next.right.present) =>
                 /\ s.right.present
                 /\ Between(s.right.y, prev.right.y, next.right.y)
                 /\ Interpolates(s.right.y, prev.right.y, next.right.y, a)

\* a frame sampled half way between the first two of three entries whose
\* balls differ: the pair is not the newest one and the ball is in between
C19_Witness ==
    /\ SampledInRange
    /\ Len(buf) = 3
    /\ shown.i = 2 /\ shown.alpha = 500
    /\ buf[1].ball.x # buf[2].ball.x
    /\ 2 * shown.pose.ball.x = buf[1].ball.x + buf[2].ball.x


\* the pose of a buffer entry, as sampleState returns a pose
PoseOf(e) == [null |-> FALSE, ball |-> e.ball, left |-> e.left, right |-> e.right]

\* no adjacent pair of entries brackets renderTime
NoBracket(b, renderTime) ==
    ~\E k \in 1..(Len(b) - 1) : b[k].t <= renderTime /\ renderTime <= b[k + 1].t

\* C20: when no adjacent pair of buffer entries brackets renderTime
\* (renderTime later than the newest entry or earlier than the oldest, or a
\* single entry) sampleState returns the pose of the newest entry, and it
\* returns null only when the buffer is empty.
C20_HoldsNewest ==
    shown.called =>
        /\ shown.pose.null <=> Len(buf) = 0
        /\ (Len(buf) >= 1 /\ Ordered(buf) /\ NoBracket(buf, shown.renderTime)) =>
               shown.pose = PoseOf(buf[Len(buf)])


\* the step is a call of sampleState (every other step of the client
\* forgets the last call)
Sampled == shown'.called

\* the step is a call of sampleState with the renderTime of the call before
\* it, the buffer not having changed in between
Resampled == Sampled /\ shown.called /\ shown'.renderTime = shown.renderTime

KeptByMessage(p) == <<p.ws, p.side, p.y, p.score>>

\* the fields of a participant that hold its movement intent
IntentOf(p) == <<p.up, p.down, p.desiredY>>

\* C22: handling an inbound client message (input, pong, touchMove or one
\* the handler does not know) changes at most the sender's own intent fields
\* and last-pong timestamp (a pong the timestamp only, every other message
\* not the timestamp) and leaves the ball, the scores, the sequence number,
\* the participant list and the other participant's fields unchanged; the
\* ball and the scores change in ticks only.
C22_MessageFrame ==
    [][/\ \A c \in Conns, m \in MsgPayloads :
             OnMessage(c, m) =>
                 /\ ball' = ball /\ seq' = seq
                 /\ DOMAIN players' = DOMAIN players
                 /\ \A i \in DOMAIN players :
                       /\ KeptByMessage(players'[i]) = KeptByMessage(players[i])
                       /\ players[i].ws # c => players'[i] = players[i]
                       /\ m.type = "pong" =>
                              IntentOf(players'[i]) = IntentOf(players[i])
                       /\ m.type # "pong" =>
                              players'[i].lastPong = players[i].lastPong
       /\ ~ev'.tick =>
             /\ ball' = ball
             /\ \A i \in DOMAIN players :
                   players'[i].score = players[i].score]_vars

\* after a tick of a match of two, the first participant has pressed a key
\* and answered a ping, the second one has sent a touch; the ball is the
\* tick's
C22_Witness ==
    /\ ~ev.tick /\ seq >= 1
    /\ Len(players) = 2
    /\ ~AtCentre(ball)
    /\ players[1].up /\ players[1].lastPong = HEARTBEAT_MS
    /\ players[1].desiredY = NoTarget
    /\ players[2].desiredY = TopTarget /\ ~players[2].up


\* C23: in every reachable state each participant's paddle offset y is
\* within [0, HEIGHT - PADDLE_H], in both control modes and whatever input
\* and touchMove messages arrive (desiredY far outside the field included),
\* and a target stored by touchMove keeps the paddle's centre half a paddle
\* away from the field's edges.
C23_PaddleInField ==
    \A i \in DOMAIN players :
        /\ 0 <= players[i].y
        /\ players[i].y <= U(HEIGHT) - U(PADDLE_H)
        /\ players[i].desiredY # NoTarget =>
              /\ U(PADDLE_H) \div 2 <= players[i].desiredY
              /\ players[i].desiredY <= U(HEIGHT) - U(PADDLE_H) \div 2

\* a tick ran with the key down held and the paddle at the bottom edge
C23_Witness ==
    /\ ev.tick
    /\ players[1].down /\ ~players[1].up /\ players[1].desiredY = NoTarget
    /\ players[1].y = U(HEIGHT) - U(PADDLE_H)


\* ======================================================= paddle collisions
\* C24: the collision response runs for a paddle only on a ball moving
\* toward it: in every tick in which the ball's bounding box overlaps the
\* left paddle the ball came in with vx < 0, with vx > 0 where it overlaps
\* the right paddle, and the tick after a response does not run the response
\* of that paddle again.
C24_HitsMovingToward ==
    [][ev'.tick =>
          /\ ev'.hitLeft => ball.vx < 0
          /\ ev'.hitRight => ball.vx > 0
          /\ ev.hitLeft => ~ev'.hitLeft
          /\ ev.hitRight => ~ev'.hitRight]_vars

\* the ball is one tick off the face of the left paddle that struck it and
\* the left paddle's response has not run again
C24_Witness ==
    /\ ev.tick /\ ~ev.hitLeft /\ ~ev.hitRight
    /\ Len(players) >= 1
    /\ ball.vx > 0
    /\ ball.x = LeftPadX + U(PADDLE_W) + U(BALL_R) + ball.vx
    /\ InRowsOf(ball, players[1].y)


\* the step is a tick in which the left (right) paddle's response ran last
\* and no goal re-armed the ball
StruckByLeft == ev'.tick /\ ev'.hitLeft /\ ~ev'.hitRight /\ NoGoal
StruckByRight == ev'.tick /\ ev'.hitRight /\ NoGoal

\* C25: at every paddle collision the normalized impact offset (ball y
\* minus paddle centre, over half the paddle height) is within [-1, 1], so
\* the reflection angle is at most the maximum deflection angle pi/4 and the
\* velocity after the collision points away from the paddle with
\* |vx| >= |vy|.
C25_AngleBounded ==
    [][/\ StruckByLeft =>
             /\ Abs(relativeOf(ball', players'[findSide(players', "left")].y))
                    <= Scale
             /\ ball'.vx > 0
             /\ Abs(ball'.vx) >= Abs(ball'.vy)
       /\ StruckByRight =>
             /\ Abs(relativeOf(ball', players'[findSide(players', "right")].y))
                    <= Scale
             /\ ball'.vx < 0
             /\ Abs(ball'.vx) >= Abs(ball'.vy)]_vars


\* the snapshot the step wrote to connection c, if it wrote one
GotState(c) == sent'[c] # <<>> /\ sent'[c][1].type = "state"

\* the ball's bounding box is within the columns of the right paddle's place
InRightColumns(b) ==
    b.x - U(BALL_R) < RightPadX + U(PADDLE_W) /\ b.x + U(BALL_R) > RightPadX

\* C26: in a tick of a match in which a side has no participant, every
\* snapshot carries null for that side and no collision response runs at
\* that side's paddle place: unless the other paddle is hit or a goal is
\* reached the ball moves by its velocity and the wall reflection only, and
\* a ball that passes the goal margin behind the empty side is re-armed at
\* the centre.
C26_EmptySideAbsent ==
    [][ev'.tick =>
          /\ findSide(players, "right") = 0 =>
                /\ \A c \in Conns : GotState(c) => ~sent'[c][1].right.present
                /\ ~ev'.hitRight
                /\ (~ev'.hitLeft /\ NoGoal) => ball' = FreeTick(ball)
                /\ ev'.exitRight => AtCentre(ball')
          /\ findSide(players, "left") = 0 =>
                /\ \A c \in Conns : GotState(c) => ~sent'[c][1].left.present
                /\ ~ev'.hitLeft
                /\ (~ev'.hitRight /\ NoGoal) => ball' = FreeTick(ball)
                /\ ev'.exitLeft => AtCentre(ball')]_vars

\* the lone left participant was written a snapshot with no right paddle
\* while the ball, moving right, was in the columns of the right paddle's
\* place and in the rows a paddle at the start offset would hold
C26_Witness ==
    /\ ev.tick /\ ~ev.hitRight
    /\ Len(players) = 1 /\ players[1].side = "left"
    /\ sent[1] # <<>> /\ sent[1][1].type = "state"
    /\ ~sent[1][1].right.present
    /\ ball.vx > 0 /\ InRightColumns(ball)
    /\ InRowsOf(ball, U(HEIGHT) \div 2 - U(PADDLE_H) \div 2)


\* ======================================================= client retention
\* the step ingests a state snapshot
Ingests == ingested' = ingested + 1

\* C27: ingest evicts by time: after a state snapshot is ingested, a buffer
\* of more than the two-entry minimum holds no entry stamped more than the
\* retention window (1500 ms) before the client's current time, so a steady
\* stream of snapshots stamped with the server's wall-clock time keeps the
\* buffer bounded.
C27_EvictsByTime ==
    [][Ingests =>
          (Len(buf') > 2 =>
              \A k \in 1..Len(buf') : buf'[k].t >= WallClock - BUFFER_MS)]_vars


\* ====================================================== closes of the past
\* the step delivers the close event of connection c, which is not a
\* participant of the match: it was turned away as full, or its match has
\* been torn down
ClosesOutsider(c) ==
    c \notin Participants /\ rs[c] # "CLOSED" /\ rs'[c] = "CLOSED"

\* C28: only the close of a participant of the current match tears it down:
\* the close event of a connection turned away as full, or of a connection
\* whose match was torn down before, leaves the participants admitted since
\* in the list, their connections as they were, and sends them nothing.
C28_OnlyParticipantsTearDown ==
    [][\A c \in Conns :
          ClosesOutsider(c) =>
              /\ players' = players
              /\ \A d \in Participants : rs'[d] = rs[d] /\ sent'[d] = <<>>]_vars


\* ================================================== scores before a match
\* C29: no participant's score is incremented in a tick of a match with
\* fewer than two participants, so both scores are 0 when the second
\* participant is admitted.
C29_NoScoreBeforeTwo ==
    [][/\ (ev'.tick /\ Len(players) < 2) =>
             \A i \in DOMAIN players : players'[i].score = players[i].score
       /\ (Len(players) = 1 /\ Len(players') = 2) =>
             \A i \in DOMAIN players' : players'[i].score = 0]_vars


\* ====================================================== answered heartbeats
\* the step is a pong received from the participant at index i
PongFrom(i) ==
    \E m \in AlivePayloads : m.type = "pong" /\ OnMessage(players[i].ws, m)

\* C30: a participant that has answered the last ping (or was admitted
\* since) is not terminated by the heartbeat cycle, whatever else happened
\* in between; and only a pong refreshes liveness: input and touchMove
\* messages leave the last-pong timestamp as it was, so a participant that
\* sends them but no pong for more than 10000 ms is terminated.
C30_AnsweringStaysAlive ==
    /\ [][BeatStep =>
             \A c \in Participants :
                 /\ (rs[c] = "OPEN" /\ PlayerOf(c).lastPong >= lastBeat)
                        => rs'[c] = "OPEN"
                 /\ ((PlayerOf(c).up \/ PlayerOf(c).desiredY # NoTarget)
                        /\ tooOld(PlayerOf(c))) => rs'[c] # "OPEN"]_vars
    /\ [][\A i \in DOMAIN players :
             (/\ i \in DOMAIN players'
              /\ players'[i].ws = players[i].ws
              /\ players'[i].lastPong # players[i].lastPong) => PongFrom(i)]_vars

\* at the fourth heartbeat cycle the left participant, who has answered the
\* pings, is open, and the right one, who has pressed a key and touched the
\* field but never answered since time 0, has been terminated
C30_Witness ==
    /\ Len(players) = 2
    /\ now = lastBeat /\ now > PONG_TIMEOUT_MS
    /\ rs[players[1].ws] = "OPEN"
    /\ players[1].lastPong = now - HEARTBEAT_MS
    /\ rs[players[2].ws] = "CLOSING"
    /\ players[2].up /\ players[2].desiredY # NoTarget
    /\ players[2].lastPong = 0

====
